---- MODULE Spec2Model ----
(***************************************************************************)
(* HuggingFaceService (src/src/lib/huggingface.ts): a singleton facade     *)
(* with four asynchronous public operations, each a single try/catch       *)
(* around one remote call, and three private helpers.                      *)
(*                                                                         *)
(* JavaScript strings are modelled as sequences of one-character strings,  *)
(* so that trim, split, the regular expressions, Date.parse and JSON.parse *)
(* are computed on the characters.  JavaScript values are tagged records.  *)
(* Prompt texts are not modelled: they are sent to the backend and never   *)
(* read again, and the backend's outcome is nondeterministic.              *)
(***************************************************************************)
EXTENDS Integers, Sequences, FiniteSets, TLC

VARIABLES
    instance,   \* HuggingFaceService.instance (static field), or NoInstance
    created,    \* how many times the constructor has run
    engine,     \* which Date.parse fallback the JavaScript engine implements
    inv,        \* per caller: the activation frame of its invocation
    input,      \* argument of the helper under test (helper specifications)
    output      \* its outcome

vars == <<instance, created, engine, inv, input, output>>

----------------------------------------------------------------------------
(* Bounds of the model *)

NumCallers == 2     \* invocations that may be in flight together
MaxUrlLen == 4      \* longest data URL drawn for fileToBase64
MaxPad == 10        \* most leading rows put before the rows under test
MaxTail == 1        \* most rows under test after the leading rows

(* Program constants *)

SampleRows == 10    \* data.slice(0, 10)
SummaryRows == 3    \* data.slice(0, 3)
PhoneMinRun == 7    \* {7,15} in the phone pattern

----------------------------------------------------------------------------
(* JavaScript values *)

Undefined == [t |-> "undefined"]
Null == [t |-> "null"]
Str(s) == [t |-> "string", s |-> s]
Lit(l) == [t |-> "string", lit |-> l]     \* a string literal of the source
Num(n) == [t |-> "number", n |-> n]
BigIntV(n) == [t |-> "bigint", big |-> n]
Bool(b) == [t |-> "boolean", b |-> b]
Arr(a) == [t |-> "array", a |-> a]
Obj(keys, f) == [t |-> "object", keys |-> keys, f |-> f]
NoFields == [k \in {} |-> Undefined]
EmptyObj == Obj(<<>>, NoFields)
Thrown == [t |-> "thrown"]                \* an exception instead of a value

WhiteSpace == {" ", "\t", "\n"}
Digits == {"0", "1", "2", "3", "4", "5", "6", "7", "8", "9"}

DigitOf(n) ==
    CASE n = 0 -> "0" [] n = 1 -> "1" [] n = 2 -> "2" [] n = 3 -> "3"
      [] n = 4 -> "4" [] n = 5 -> "5" [] n = 6 -> "6" [] n = 7 -> "7"
      [] n = 8 -> "8" [] n = 9 -> "9"

DigitVal(c) == CHOOSE n \in 0..9 : DigitOf(n) = c

RECURSIVE NatToStr(_)
NatToStr(n) == IF n < 10 THEN <<DigitOf(n)>>
               ELSE NatToStr(n \div 10) \o <<DigitOf(n % 10)>>

\* String.prototype.trim
Trim(s) ==
    LET keep == {i \in 1..Len(s) : s[i] \notin WhiteSpace}
    IN IF keep = {} THEN <<>>
       ELSE LET lo == CHOOSE i \in keep : \A j \in keep : i <= j
                hi == CHOOSE i \in keep : \A j \in keep : j <= i
            IN SubSeq(s, lo, hi)

\* String.prototype.split(sep) for a one-character separator
RECURSIVE Split(_, _)
Split(s, sep) ==
    LET at == {i \in 1..Len(s) : s[i] = sep}
    IN IF at = {} THEN <<s>>
       ELSE LET i == CHOOSE k \in at : \A j \in at : k <= j
            IN <<SubSeq(s, 1, i - 1)>> \o Split(SubSeq(s, i + 1, Len(s)), sep)

\* a[i] with JavaScript's zero-based index: undefined past the end
At(a, i) == IF i + 1 \in 1..Len(a) THEN a[i + 1] ELSE Undefined

\* Array.prototype.slice(0, n)
Slice(a, n) == SubSeq(a, 1, IF Len(a) < n THEN Len(a) ELSE n)

\* ToBoolean
Truthy(v) ==
    CASE v.t = "undefined" -> FALSE
      [] v.t = "null" -> FALSE
      [] v.t = "string" -> IF "s" \in DOMAIN v THEN v.s # <<>> ELSE TRUE
      [] v.t = "number" -> v.n # 0
      [] v.t = "bigint" -> v.big # 0
      [] v.t = "boolean" -> v.b
      [] OTHER -> TRUE

\* String(v), for the primitive values of the model
ToStr(v) ==
    CASE v.t = "string" -> v.s
      [] v.t = "number" -> NatToStr(v.n)
      [] v.t = "bigint" -> NatToStr(v.big)
      [] v.t = "null" -> <<"n", "u", "l", "l">>
      [] v.t = "undefined" -> <<"u", "n", "d", "e", "f", "i", "n", "e", "d">>
      [] v.t = "boolean" -> IF v.b THEN <<"t", "r", "u", "e">>
                            ELSE <<"f", "a", "l", "s", "e">>

----------------------------------------------------------------------------
(* The patterns of generateFallbackAnalysis *)

\* /\S+@\S+\.\S+/.test(s): some "@" with a non-space before it, then one or
\* more non-spaces, a ".", and a non-space
EmailTest(s) ==
    \E a \in 2..Len(s) : \E d \in (a + 2)..(Len(s) - 1) :
        /\ s[a - 1] \notin WhiteSpace
        /\ s[a] = "@"
        /\ \A i \in (a + 1)..(d - 1) : s[i] \notin WhiteSpace
        /\ s[d] = "."
        /\ s[d + 1] \notin WhiteSpace

PhoneClass == Digits \cup WhiteSpace \cup {"-", "(", ")"}

\* /[\+]?[1-9]?[\d\s\-\(\)]{7,15}/.test(s): both prefixes are optional and the
\* pattern is not anchored, so it matches iff 7 consecutive characters are of
\* the class
PhoneTest(s) ==
    \E i \in 1..(Len(s) - PhoneMinRun + 1) :
        \A j \in i..(i + PhoneMinRun - 1) : s[j] \in PhoneClass

AllDigits(s) == \A i \in 1..Len(s) : s[i] \in Digits

TwoDigits(s, i) == 10 * DigitVal(s[i]) + DigitVal(s[i + 1])

DaysIn(m) == IF m = 2 THEN 28 ELSE IF m \in {4, 6, 9, 11} THEN 30 ELSE 31

\* The date-only forms of the ECMAScript date-time string format:
\* YYYY, YYYY-MM, YYYY-MM-DD
IsoDate(s) ==
    /\ Len(s) \in {4, 7, 10}
    /\ AllDigits(SubSeq(s, 1, 4))
    /\ Len(s) >= 7 =>
         /\ s[5] = "-"
         /\ AllDigits(SubSeq(s, 6, 7))
         /\ TwoDigits(s, 6) \in 1..12
    /\ Len(s) = 10 =>
         /\ s[8] = "-"
         /\ AllDigits(SubSeq(s, 9, 10))
         /\ TwoDigits(s, 9) \in 1..DaysIn(TwoDigits(s, 6))

Engines == {"strict", "legacy"}

\* !isNaN(Date.parse(s)).  A string outside the standard format is parsed
\* by implementation-specific heuristics: a strict engine rejects it, a
\* legacy one may accept any string that holds a number.
DateParses(s) ==
    \/ IsoDate(s)
    \/ engine = "legacy" /\ \E i \in 1..Len(s) : s[i] \in Digits

----------------------------------------------------------------------------
(* JSON *)

RECURSIVE HasBigInt(_)
HasBigInt(v) ==
    CASE v.t = "bigint" -> TRUE
      [] v.t = "object" -> \E k \in DOMAIN v.f : HasBigInt(v.f[k])
      [] v.t = "array" -> \E i \in 1..Len(v.a) : HasBigInt(v.a[i])
      [] OTHER -> FALSE

\* JSON.stringify(rows, null, 2) throws a TypeError on a BigInt value; the
\* text it returns otherwise goes into the prompt only
StringifyThrows(rows) == \E i \in 1..Len(rows) : HasBigInt(rows[i])

\* JSON.parse(s), for the JSON texts without strings and without nesting:
\* a literal, a natural number or an empty container, with white space
\* around it; every other text of the model is a SyntaxError
JsonParse(s) ==
    LET tok == Trim(s)
        bare == SelectSeq(tok, LAMBDA c : c \notin WhiteSpace)
    IN CASE tok = <<"n", "u", "l", "l">> -> Null
         [] tok = <<"t", "r", "u", "e">> -> Bool(TRUE)
         [] tok = <<"f", "a", "l", "s", "e">> -> Bool(FALSE)
         [] bare = <<"{", "}">> -> EmptyObj
         [] bare = <<"[", "]">> -> Arr(<<>>)
         [] tok # <<>> /\ AllDigits(tok) /\ (Len(tok) = 1 \/ tok[1] # "0") ->
              Num(CHOOSE n \in 0..99999 : NatToStr(n) = tok)
         [] OTHER -> Thrown

----------------------------------------------------------------------------
(* Private helpers *)

\* result.split(',')[1]
Base64Of(result) ==
    LET parts == Split(result, ",")
    IN At([i \in 1..Len(parts) |-> Str(parts[i])], 1)

\* x || y
OrElse(x, y) == IF Truthy(x) THEN x ELSE y

\* Object.keys(v): own enumerable keys in insertion order; a number or a
\* boolean has none
ObjectKeys(v) == IF v.t = "object" THEN v.keys ELSE <<>>

\* row[col]: a TypeError on null and undefined
Get(row, col) ==
    IF row.t \in {"null", "undefined"} THEN Thrown
    ELSE IF row.t = "object" /\ col \in DOMAIN row.f THEN row.f[col]
    ELSE Undefined

\* the three tests of the forEach body, on String(val)
Passes(test, s) ==
    CASE test = "email" -> EmailTest(s)
      [] test = "phone" -> PhoneTest(s)
      [] test = "date" -> DateParses(s)

\* sample.some(val => test(String(val)))
Some(sample, test) == \E i \in 1..Len(sample) : Passes(test, ToStr(sample[i]))

Push(list, col, hit) == IF hit THEN Append(list, Lit(col)) ELSE list

\* mutant of ColumnOf: the slice forgotten, every row is sampled
ColumnOfAllRows(data, col) == [i \in 1..Len(data) |-> Get(data[i], col)]

\* data.slice(0, 10).map(row => row[col])
ColumnOf(data, col) ==
    LET rows == Slice(data, SampleRows)
    IN [i \in 1..Len(rows) |-> Get(rows[i], col)]

\* columns.forEach(col => ...), from column k on; p holds the lists so far
RECURSIVE DetectFrom(_, _, _, _)
DetectFrom(data, columns, k, p) ==
    IF k > Len(columns) THEN p
    ELSE LET col == columns[k]
             values == ColumnOf(data, col)
             sample == SelectSeq(values, Truthy)
         IN IF \E i \in 1..Len(values) : values[i] = Thrown THEN Thrown
            ELSE DetectFrom(data, columns, k + 1,
                   [emails |-> Push(p.emails, col, Some(sample, "email")),
                    phones |-> Push(p.phones, col, Some(sample, "phone")),
                    dates |-> Push(p.dates, col, Some(sample, "date")),
                    addresses |-> p.addresses])

Recommendations ==
    <<Lit("Remove empty rows"), Lit("Trim whitespace"), Lit("Handle missing values")>>

Analysis(p) ==
    Obj(<<"quality_issues", "cleaning_recommendations", "column_analysis",
          "patterns_detected">>,
        [quality_issues |-> Arr(<<>>),
         cleaning_recommendations |-> Arr(Recommendations),
         column_analysis |-> EmptyObj,
         patterns_detected |->
            Obj(<<"emails", "phones", "dates", "addresses">>,
                [emails |-> Arr(p.emails), phones |-> Arr(p.phones),
                 dates |-> Arr(p.dates), addresses |-> Arr(p.addresses)])])

\* generateFallbackAnalysis(data): the analysis, or Thrown
generateFallbackAnalysis(data) ==
    IF Len(data) = 0 THEN EmptyObj
    ELSE LET columns == ObjectKeys(OrElse(At(data, 0), EmptyObj))
             p == DetectFrom(data, columns, 1,
                    [emails |-> <<>>, phones |-> <<>>, dates |-> <<>>,
                     addresses |-> <<>>])
         IN IF p = Thrown THEN Thrown ELSE Analysis(p)

\* createDataSummary(data, filename): the summary text, or Thrown
createDataSummary(data) ==
    IF Len(data) = 0 THEN Lit("No data available")
    ELSE IF StringifyThrows(Slice(data, SummaryRows)) THEN Thrown
    ELSE [t |-> "string",
          summary |-> [rows |-> Len(data),
                       columns |-> ObjectKeys(OrElse(At(data, 0), EmptyObj)),
                       preview |-> Slice(data, SummaryRows)]]

----------------------------------------------------------------------------
(* Inputs and backend outcomes *)

Rec1(k, v) == Obj(<<k>>, [c \in {k} |-> v])

EmailText == <<"a", "@", "b", ".", "c">>
DateText == <<"2", "0", "2", "0", "-", "0", "1", "-", "0", "2">>
PhoneText == <<"5", "5", "5", "1", "2", "3", "4">>
FreeText == <<"h", "i">>

\* extractedText / userMessage
Texts == {<<" ", "0", "C", "R">>, <<>>}

\* data / dataContext: empty; a null row after a record; a BigInt value; a
\* later row without the first row's key
DataArgs ==
    {<<>>,
     <<Rec1("mail", Str(EmailText)), Null>>,
     <<Rec1("id", BigIntV(7))>>,
     <<Rec1("day", Str(DateText)), Rec1("tel", Str(PhoneText))>>}

ChatArgs == {<<Rec1("mail", Str(EmailText)), Null>>, <<Rec1("id", BigIntV(7))>>}

PngUrl ==
    <<"d", "a", "t", "a", ":", "i", "m", "a", "g", "e", "/", "p", "n", "g", ";",
      "b", "a", "s", "e", "6", "4", ",", "A", "A", "A", "A">>

\* what readAsDataURL yields for the image file
Files == {PngUrl}

\* response.generated_text / response.answer
GenTexts ==
    {Undefined, Str(<<>>), Str(<<" ">>), Str(<<" ", "o", "k", " ">>),
     Str(<<"n", "u", "l", "l">>), Str(<<"{", "}">>)}

NoOutcome == [k |-> "none"]
Throws == [k |-> "throw"]
Resolves(v) == [k |-> "resolve", v |-> v]
Outcomes == {Throws} \cup {Resolves(v) : v \in GenTexts}

----------------------------------------------------------------------------
(* The singleton *)

NoInstance == [id |-> 0, model |-> ""]
ModelName == "Qwen/Qwen2.5-VL-7B-Instruct"

\* new HuggingFaceService()
Construct(n) == [id |-> n, model |-> ModelName]

\* mutant of MustCreate: the check forgotten, every call constructs
AlwaysCreate == TRUE

\* if (!HuggingFaceService.instance)
MustCreate == instance = NoInstance

\* static getInstance(), called by caller c (the module itself calls it
\* first, for the exported huggingFaceService); c keeps what it returns
GetInstance(c) ==
    /\ inv[c].pc = "start"
    /\ instance' = IF MustCreate THEN Construct(created + 1) ELSE instance
    /\ created' = IF MustCreate THEN created + 1 ELSE created
    /\ inv' = [inv EXCEPT ![c] = [@ EXCEPT !.pc = "idle", !.svc = instance']]
    /\ UNCHANGED <<engine, input, output>>

----------------------------------------------------------------------------
(* Activation frames of the public operations *)

Callers == 1..NumCallers

NoResult == [k |-> "none"]
Rejected == [k |-> "rejected"]
Response(success, data, error) ==
    [k |-> "response", success |-> success, data |-> data, error |-> error]

\* a caller that holds the service and has invoked nothing yet
Idle(svc) ==
    [svc |-> svc, op |-> "none", pc |-> "idle", text |-> <<>>, data |-> <<>>,
     file |-> <<>>, read |-> "none", image |-> Undefined, model |-> "",
     outcome |-> NoOutcome, calls |-> 0, result |-> NoResult]

\* a caller before it has the service
Start == [Idle(NoInstance) EXCEPT !.pc = "start"]

\* the frame an invocation runs in: its own parameters and locals
Frame(c) == inv[c]

\* return v from the async function; an exception that escapes rejects
Return(f, v) ==
    [f EXCEPT !.pc = "done", !.result = IF v = Thrown THEN Rejected ELSE v]

\* await hf.textGeneration(...) / hf.visualQuestionAnswering(...)
\* with model: this.model
Request(f, endpoint) ==
    [f EXCEPT !.pc = endpoint, !.calls = @ + 1, !.model = f.svc.model]

\* response.generated_text?.trim()
OptTrim(v) == IF v \in {Undefined, Null} THEN Undefined ELSE Str(Trim(ToStr(v)))

(* enhanceOCRText *)

\* mutant of EnhanceCatch: the text kept in a place the invocations share,
\* where the first caller's text is found
EnhanceCatchShared(f) ==
    Return(f, Response(FALSE, Str(inv[1].text), Lit("Failed to enhance OCR text")))

EnhanceCatch(f) ==
    Return(f, Response(FALSE, Str(f.text), Lit("Failed to enhance OCR text")))

EnhanceBegin(f, extractedText) ==
    Request([f EXCEPT !.op = "enhanceOCRText", !.text = extractedText],
            "textGeneration")

\* mutant of EnhanceEnd: ?? in place of ||, an empty text is kept
EnhanceEndNullish(f, outcome) ==
    IF outcome = Throws THEN EnhanceCatch(f)
    ELSE Return(f, Response(TRUE,
                  IF OptTrim(outcome.v) = Undefined THEN Str(f.text)
                  ELSE OptTrim(outcome.v),
                  Undefined))

EnhanceEnd(f, outcome) ==
    IF outcome = Throws THEN EnhanceCatch(f)
    ELSE Return(f, Response(TRUE, OrElse(OptTrim(outcome.v), Str(f.text)), Undefined))

(* cleanAndStructureData *)

\* mutant of CleanCatch: a thrown call is tried once more
CleanCatchRetry(f) ==
    LET fallback == generateFallbackAnalysis(f.data)
    IN IF f.outcome = Throws /\ f.calls < 2 THEN Request(f, "textGeneration")
       ELSE Return(f, IF fallback = Thrown THEN Thrown
                      ELSE Response(FALSE, fallback, Lit("Failed to analyze data")))

CleanCatch(f) ==
    LET fallback == generateFallbackAnalysis(f.data)
    IN Return(f, IF fallback = Thrown THEN Thrown
                 ELSE Response(FALSE, fallback, Lit("Failed to analyze data")))

CleanBegin(f, data) ==
    LET g == [f EXCEPT !.op = "cleanAndStructureData", !.data = data]
    IN IF StringifyThrows(Slice(data, SampleRows)) THEN CleanCatch(g)
       ELSE Request(g, "textGeneration")

\* mutant of ParseOrFallback: the inner catch yields {} instead
ParseOrEmpty(f, text) ==
    LET parsed == JsonParse(ToStr(OrElse(text, Str(<<"{", "}">>))))
    IN IF parsed = Thrown THEN EmptyObj ELSE parsed

\* JSON.parse(response.generated_text || '{}'), with the inner catch
ParseOrFallback(f, text) ==
    LET parsed == JsonParse(ToStr(OrElse(text, Str(<<"{", "}">>))))
    IN IF parsed = Thrown THEN generateFallbackAnalysis(f.data) ELSE parsed

CleanEnd(f, outcome) ==
    IF outcome = Throws THEN CleanCatch(f)
    ELSE LET analysisResult == ParseOrFallback(f, outcome.v)
         IN IF analysisResult = Thrown THEN CleanCatch(f)
            ELSE Return(f, Response(TRUE, analysisResult, Undefined))

(* generateChatResponse *)

ChatCatch(f) ==
    Return(f, Response(FALSE,
                       Lit("I'm experiencing some technical difficulties. Please try again."),
                       Lit("Failed to generate response")))

ChatBegin(f, userMessage, dataContext) ==
    LET g == [f EXCEPT !.op = "generateChatResponse", !.text = userMessage,
                       !.data = dataContext]
    IN IF createDataSummary(dataContext) = Thrown THEN ChatCatch(g)
       ELSE Request(g, "textGeneration")

ChatEnd(f, outcome) ==
    IF outcome = Throws THEN ChatCatch(f)
    ELSE Return(f, Response(TRUE,
                  OrElse(OptTrim(outcome.v),
                         Lit("I'm here to help analyze your data. Could you please rephrase your question?")),
                  Undefined))

(* analyzeImageForOCR *)

ImageCatch(f) ==
    Return(f, Response(FALSE, Str(<<>>), Lit("Failed to analyze image")))

\* up to await this.fileToBase64(imageFile): reader.readAsDataURL(file)
ImageBegin(f, file) ==
    [f EXCEPT !.op = "analyzeImageForOCR", !.file = file, !.read = "pending",
              !.pc = "readAsDataURL"]

\* reader.onload, then the request
ImageLoaded(f) ==
    Request([f EXCEPT !.read = "loaded", !.image = Base64Of(f.file)],
            "visualQuestionAnswering")

\* mutant of ImageReadFailed: the read error is swallowed and the request
\* goes out without an image
ImageReadIgnored(f) ==
    Request([f EXCEPT !.read = "failed"], "visualQuestionAnswering")

\* reader.onerror = reject
ImageReadFailed(f) == ImageCatch([f EXCEPT !.read = "failed"])

ImageEnd(f, outcome) ==
    IF outcome = Throws THEN ImageCatch(f)
    ELSE Return(f, Response(TRUE, OrElse(outcome.v, Str(<<>>)), Undefined))

----------------------------------------------------------------------------
(* Actions *)

Put(c, f) ==
    /\ inv' = [inv EXCEPT ![c] = f]
    /\ UNCHANGED <<instance, created, engine, input, output>>

CallEnhance(c) ==
    /\ Frame(c).pc = "idle"
    /\ \E extractedText \in Texts : Put(c, EnhanceBegin(Frame(c), extractedText))

CallClean(c) ==
    /\ Frame(c).pc = "idle"
    /\ \E data \in DataArgs : Put(c, CleanBegin(Frame(c), data))

CallChat(c) ==
    /\ Frame(c).pc = "idle"
    /\ \E dataContext \in ChatArgs :
          Put(c, ChatBegin(Frame(c), <<"h", "i">>, dataContext))

CallImage(c) ==
    /\ Frame(c).pc = "idle"
    /\ \E file \in Files : Put(c, ImageBegin(Frame(c), file))

FileLoaded(c) ==
    /\ Frame(c).pc = "readAsDataURL"
    /\ Put(c, ImageLoaded(Frame(c)))

FileError(c) ==
    /\ Frame(c).pc = "readAsDataURL"
    /\ Put(c, ImageReadFailed(Frame(c)))

\* the continuation after the awaited call settles
Continue(f, outcome) ==
    LET g == [f EXCEPT !.outcome = outcome]
    IN CASE f.op = "enhanceOCRText" -> EnhanceEnd(g, outcome)
         [] f.op = "cleanAndStructureData" -> CleanEnd(g, outcome)
         [] f.op = "generateChatResponse" -> ChatEnd(g, outcome)
         [] f.op = "analyzeImageForOCR" -> ImageEnd(g, outcome)

TextGenSettles(c) ==
    /\ Frame(c).pc = "textGeneration"
    /\ \E outcome \in Outcomes : Put(c, Continue(Frame(c), outcome))

VqaSettles(c) ==
    /\ Frame(c).pc = "visualQuestionAnswering"
    /\ \E outcome \in {Throws, Resolves(Undefined), Resolves(Str(<<"o", "k">>))} :
          Put(c, Continue(Frame(c), outcome))

Init ==
    /\ instance = NoInstance
    /\ created = 0
    /\ engine \in Engines
    /\ inv = [c \in Callers |-> Start]
    /\ input = <<>>
    /\ output = NoResult

Next ==
    \E c \in Callers :
         \/ GetInstance(c)
         \/ CallEnhance(c)
         \/ CallClean(c)
         \/ CallChat(c)
         \/ CallImage(c)
         \/ FileLoaded(c)
         \/ FileError(c)
         \/ TextGenSettles(c)
         \/ VqaSettles(c)

Spec == Init /\ [][Next]_vars

----------------------------------------------------------------------------
(* fileToBase64 on its own: reader.result drawn from short strings over a   *)
(* prefix character, the comma and a payload character                      *)

UrlChars == {"d", ",", "A"}
Urls == UNION {[1..n -> UrlChars] : n \in 0..MaxUrlLen}

InitBase64 ==
    /\ instance = NoInstance
    /\ created = 0
    /\ engine \in Engines
    /\ inv = [c \in Callers |-> Start]
    /\ input \in Urls
    /\ output = NoResult

\* reader.onload: resolve(result.split(',')[1])
OnLoad ==
    /\ output = NoResult
    /\ output' = Base64Of(input)
    /\ UNCHANGED <<instance, created, engine, inv, input>>

NextBase64 == OnLoad

SpecBase64 == InitBase64 /\ [][NextBase64]_vars

----------------------------------------------------------------------------
(* generateFallbackAnalysis on its own: data is up to MaxPad copies of a    *)
(* leading row followed by up to MaxTail rows over two columns              *)

Cells == {Str(<<>>), Str(EmailText), Str(DateText), Str(PhoneText), Str(FreeText)}

Records ==
    {Obj(<<>>, NoFields)}
    \cup {Rec1("a", v) : v \in Cells}
    \cup {Rec1("b", v) : v \in Cells}
    \cup {Obj(<<"a", "b">>, [c \in {"a", "b"} |-> IF c = "a" THEN v ELSE w]) :
            v \in Cells, w \in Cells}

TailRows == Records \cup {Null, Num(5)}

PadRows == {Rec1("a", Str(<<>>)), Rec1("a", Str(FreeText)), Null}

Tails == UNION {[1..n -> TailRows] : n \in 0..MaxTail}

InitFallback ==
    /\ instance = NoInstance
    /\ created = 0
    /\ engine \in Engines
    /\ inv = [c \in Callers |-> Start]
    /\ \E pad \in PadRows, n \in 0..MaxPad, tail \in Tails :
          input = [i \in 1..n |-> pad] \o tail
    /\ output = NoResult

Analyse ==
    /\ output = NoResult
    /\ output' = generateFallbackAnalysis(input)
    /\ UNCHANGED <<instance, created, engine, inv, input>>

NextFallback == Analyse

SpecFallback == InitFallback /\ [][NextFallback]_vars

----------------------------------------------------------------------------
(* Claims *)

TextOps == {"enhanceOCRText", "cleanAndStructureData", "generateChatResponse"}
InFlight == {"readAsDataURL", "textGeneration", "visualQuestionAnswering"}
Done(c) == inv[c].pc = "done"
Blank(s) == \A i \in 1..Len(s) : s[i] \in WhiteSpace
AbsentOrEmpty(v) == v \in {Undefined, Str(<<>>)}

\* C1: every invocation of a public operation resolves to an AIResponse;
\* none ends in a rejected promise, the catch handler's own
\* generateFallbackAnalysis(data) included.
C1_NeverRejects == \A c \in Callers : inv[c].result # Rejected

\* C2: every AIResponse returned has its data field populated, neither null
\* nor undefined, whatever the backend responded.
C2_DataPopulated ==
    \A c \in Callers :
        inv[c].result.k = "response" => inv[c].result.data \notin {Null, Undefined}

\* C3 (as stated): in cleanAndStructureData, when the call resolves with
\* text that is not valid JSON, the empty string and absent text included,
\* the response is {success: true, data: D} with D the fallback analysis of
\* the same data.
C3_FallbackOnAnyInvalid ==
    \A c \in Callers :
        LET f == inv[c]
            D == generateFallbackAnalysis(f.data)
        IN (/\ Done(c) /\ f.op = "cleanAndStructureData"
            /\ f.outcome.k = "resolve"
            /\ (AbsentOrEmpty(f.outcome.v) \/ JsonParse(ToStr(f.outcome.v)) = Thrown)
            /\ D # Thrown)
           => f.result = Response(TRUE, D, Undefined)

\* C3 (amended): when the call resolves with non-empty text that is not
\* valid JSON, the outcome is that of generateFallbackAnalysis(data):
\* {success: true, data: D} when it returns D, a rejection when it throws;
\* when the text is absent or empty, "{}" is parsed in its place and the
\* response is {success: true, data: {}} whatever the data.
C3_FallbackOnInvalid ==
    \A c \in Callers :
        LET f == inv[c]
            D == generateFallbackAnalysis(f.data)
        IN (Done(c) /\ f.op = "cleanAndStructureData" /\ f.outcome.k = "resolve")
           => /\ AbsentOrEmpty(f.outcome.v)
                   => f.result = Response(TRUE, EmptyObj, Undefined)
              /\ (~AbsentOrEmpty(f.outcome.v) /\ JsonParse(ToStr(f.outcome.v)) = Thrown)
                   => f.result = IF D = Thrown THEN Rejected
                                 ELSE Response(TRUE, D, Undefined)

C3_Witness ==
    \E c \in Callers :
        /\ Done(c) /\ inv[c].op = "cleanAndStructureData"
        /\ inv[c].outcome = Resolves(Str(<<" ">>))
        /\ inv[c].result.k = "response"
        /\ inv[c].result.data # EmptyObj

\* C4: in enhanceOCRText, when the call throws the result is {success:
\* false, error: "Failed to enhance OCR text", data: extractedText}; when it
\* resolves with absent, empty or white-space-only text the result is
\* {success: true, data: extractedText}; in every other outcome data is the
\* trimmed generated text.
C4_PassThrough ==
    \A c \in Callers :
        LET f == inv[c]
        IN (Done(c) /\ f.op = "enhanceOCRText")
           => /\ f.outcome = Throws
                   => f.result = Response(FALSE, Str(f.text),
                                          Lit("Failed to enhance OCR text"))
              /\ (f.outcome.k = "resolve"
                    /\ (f.outcome.v = Undefined \/ Blank(ToStr(f.outcome.v))))
                   => f.result = Response(TRUE, Str(f.text), Undefined)
              /\ \/ f.result.data = Str(f.text)
                 \/ /\ f.result.success
                    /\ f.outcome.k = "resolve"
                    /\ ~Blank(ToStr(f.outcome.v))
                    /\ f.result.data = Str(Trim(ToStr(f.outcome.v)))

C4_Witness ==
    \E c, d \in Callers :
        /\ Done(c) /\ inv[c].op = "enhanceOCRText" /\ inv[c].text # <<>>
        /\ inv[c].outcome = Throws
        /\ Done(d) /\ inv[d].op = "enhanceOCRText" /\ inv[d].text # <<>>
        /\ inv[d].outcome = Resolves(Str(<<" ">>))

\* The frame of the same invocation run alone, with the same inputs, read
\* outcome and backend outcome, up to the point f has reached
Alone(f) ==
    LET idle == Idle(f.svc)
        begun == CASE f.op = "enhanceOCRText" -> EnhanceBegin(idle, f.text)
                   [] f.op = "cleanAndStructureData" -> CleanBegin(idle, f.data)
                   [] f.op = "generateChatResponse" -> ChatBegin(idle, f.text, f.data)
                   [] f.op = "analyzeImageForOCR" -> ImageBegin(idle, f.file)
                   [] OTHER -> idle
        read == IF begun.pc # "readAsDataURL" \/ f.read = "pending" THEN begun
                ELSE IF f.read = "failed" THEN ImageReadFailed(begun)
                ELSE ImageLoaded(begun)
    IN IF read.pc \notin InFlight \/ f.outcome = NoOutcome THEN read
       ELSE Continue(read, f.outcome)

\* C5: with invocations in flight together, under every interleaving of
\* their suspension points, each invocation's frame, its result included,
\* is the one the same invocation has when run alone with the same backend
\* outcome.
C5_Independent ==
    \A c \in Callers : inv[c].pc # "start" => inv[c] = Alone(inv[c])

C5_Witness ==
    \E c, d \in Callers :
        /\ c # d
        /\ Done(c) /\ inv[c].result.k = "response"
        /\ inv[d].pc \in InFlight /\ inv[d].op # inv[c].op /\ inv[d].text # inv[c].text

\* C6: after any sequence of getInstance() calls one instance has been
\* created, by the first call; every call has returned that instance, and
\* the stored instance and its model identifier are unchanged.
C6_Singleton ==
    /\ created <= 1
    /\ instance # NoInstance => created = 1 /\ instance = Construct(1)
    /\ \A c \in Callers : inv[c].pc # "start" => inv[c].svc = instance
    /\ \A c \in Callers : inv[c].calls > 0 => inv[c].model = ModelName

C6_Witness ==
    \E c, d \in Callers :
        /\ c # d
        /\ inv[c].pc # "start" /\ inv[d].pc # "start"
        /\ inv[c].svc = inv[d].svc /\ inv[c].svc.id = 1

\* whether building the prompt of f's operation throws
PromptThrows(f) ==
    CASE f.op = "cleanAndStructureData" -> StringifyThrows(Slice(f.data, SampleRows))
      [] f.op = "generateChatResponse" ->
            f.data # <<>> /\ StringifyThrows(Slice(f.data, SummaryRows))
      [] OTHER -> FALSE

FailImage == Response(FALSE, Str(<<>>), Lit("Failed to analyze image"))

\* C8: in analyzeImageForOCR the encoding step completes before the
\* visual-question-answering request is issued; if the file read fails the
\* request is never issued and the response is {success: false, error:
\* "Failed to analyze image", data: ""}, as when the remote call throws.
C8_ReadBeforeRequest ==
    \A c \in Callers :
        LET f == inv[c]
        IN f.op = "analyzeImageForOCR"
           => /\ f.pc = "readAsDataURL" => f.calls = 0 /\ f.read = "pending"
              /\ f.calls > 0 => f.read = "loaded" /\ f.image = Base64Of(f.file)
              /\ f.read = "failed"
                   => f.calls = 0 /\ f.pc = "done" /\ f.result = FailImage
              /\ f.outcome = Throws => f.result = FailImage

C8_Witness ==
    \E c, d \in Callers :
        /\ inv[c].op = "analyzeImageForOCR" /\ inv[c].read = "failed" /\ Done(c)
        /\ inv[d].op = "analyzeImageForOCR" /\ inv[d].outcome = Throws /\ Done(d)

\* the text after the first comma of s
AfterFirstComma(s) ==
    LET i == CHOOSE k \in 1..Len(s) : s[k] = "," /\ \A j \in 1..(k - 1) : s[j] # ","
    IN SubSeq(s, i + 1, Len(s))

\* C9: fileToBase64 returns, for a data URL, the whole remainder of the
\* string after its first comma, further commas included.
C9_RemainderAfterFirstComma ==
    (output # NoResult /\ \E k \in 1..Len(input) : input[k] = ",")
        => output = Str(AfterFirstComma(input))

\* row[col] read as a cell: nothing for a row that is no record
Cell(row, col) ==
    IF row.t = "object" /\ col \in DOMAIN row.f THEN row.f[col] ELSE Undefined

FirstRowKeys(data) == IF data[1].t = "object" THEN data[1].keys ELSE <<>>

\* the first 10 non-empty values of the column, in row order
FirstNonEmpty(data, col) ==
    Slice(SelectSeq([i \in 1..Len(data) |-> Cell(data[i], col)], Truthy), SampleRows)

\* the non-empty values of the column in the first 10 rows
NonEmptyOfFirstRows(data, col) ==
    SelectSeq([i \in 1..Len(Slice(data, SampleRows)) |-> Cell(data[i], col)], Truthy)

SampleOf(data, col, how) ==
    IF how = "values" THEN FirstNonEmpty(data, col) ELSE NonEmptyOfFirstRows(data, col)

\* the columns of the first record with a sampled value that passes the test
Listed(data, how, test) ==
    LET keys == FirstRowKeys(data)
        hit == SelectSeq(keys, LAMBDA col :
                 \E v \in {SampleOf(data, col, how)[i] :
                              i \in 1..Len(SampleOf(data, col, how))} :
                    Passes(test, ToStr(v)))
    IN [i \in 1..Len(hit) |-> Lit(hit[i])]

Classified(data, how) ==
    Analysis([emails |-> Listed(data, how, "email"),
              phones |-> Listed(data, how, "phone"),
              dates |-> Listed(data, how, "date"),
              addresses |-> <<>>])

\* C10 (as stated): generateFallbackAnalysis(data) returns {} for empty
\* data; otherwise it lists each column of the first record under emails,
\* phones, dates iff one of the first 10 non-empty values of the column
\* passes the pattern; addresses is empty and the recommendations are the
\* fixed three.
C10_FirstTenNonEmpty ==
    output \notin {NoResult, Thrown}
        => output = IF input = <<>> THEN EmptyObj
                    ELSE Classified(input, "values")

\* C10 (amended): generateFallbackAnalysis(data) returns {} for empty data;
\* otherwise the sample of a column is its non-empty (truthy) values in the
\* first 10 rows, and each column of the first record is listed under
\* emails, phones, dates iff a sampled value passes the pattern; addresses
\* is empty and the recommendations are the fixed three.  When the first
\* record has a column and one of the first 10 rows is null, it throws.
C10_NonEmptyOfFirstTen ==
    output # NoResult
        => output =
             IF input = <<>> THEN EmptyObj
             ELSE IF /\ FirstRowKeys(input) # <<>>
                     /\ \E i \in 1..Len(input) : i <= SampleRows /\ input[i] = Null
                  THEN Thrown
             ELSE Classified(input, "rows")

C10_Witness ==
    /\ output \notin {NoResult, Thrown}
    /\ Len(input) > SampleRows
    /\ input[1] = Rec1("a", Str(<<>>))
    /\ input[SampleRows + 1] = Rec1("a", Str(EmailText))
    /\ output = Analysis([emails |-> <<>>, phones |-> <<>>, dates |-> <<>>,
                          addresses |-> <<>>])

====
